---- MODULE Spec2Model ----
(***************************************************************************)
(* Model of the F1 dashboard (Rezixx/f1-datavis): the cached loaders of    *)
(* app/data_loader.py and the requests they wait on, the lap filter, the   *)
(* tire-stint aggregation, the telemetry comparison and the weather chart  *)
(* of app/viz.py, and the sidebar, the driver pickers and the tabs of      *)
(* home.py, and the time format of the weather chart.                      *)
(***************************************************************************)
EXTENDS Integers, Sequences, FiniteSets, TLC

VARIABLES
    now,          \* wall clock, in seconds
    provVersion,  \* revision of the data the timing provider currently serves
    cache,        \* st.cache_data store of load_session: key -> entry or NoEntry
    fetched,      \* history: key -> the last successful fetch [at, value] or NoEntry
    lastCall,     \* history: the last load_session call and its outcome
    endpoint,     \* catalog: which OpenF1 endpoint the pending request addresses
    resp,         \* catalog: what requests.get will meet for that request
    catalogOut,   \* catalog: outcome of the last catalog call, or NoCall
    laps,         \* session.laps of the loaded session: a sequence of lap rows
    lapOut,       \* what the last operation on the session produced, or NoCall
    telemetry,    \* the telemetry samples the provider holds for each row of laps
    weather,      \* session.weather_data: its columns, its number of rows, its Time
    driversCache, \* st.cache_data store of get_drivers_session: its one entry
    driversOut,   \* history: the last get_drivers_session call, or NoCall
    catalogCache, \* st.cache_data store of the catalog queries: endpoint -> entry
    request,      \* the HTTP request a catalog query is blocked on, or NoCall
    session_state, \* st.session_state of the browser session
    uiOut         \* history: the last run of the sidebar and its outcome, or NoCall

cacheVars == <<now, provVersion, cache, fetched, lastCall>>
catalogVars == <<endpoint, resp, catalogOut, catalogCache, request>>
sessionVars == <<laps, telemetry, weather>>
driversVars == <<driversCache, driversOut>>
lapVars == <<sessionVars, lapOut, driversVars>>
uiVars == <<session_state, uiOut>>
nonCacheVars == <<catalogVars, lapVars, uiVars>>
vars == <<cacheVars, nonCacheVars>>

NoEntry == [present |-> FALSE]
NoCall == [made |-> FALSE]

\* Python's None where a session object is expected, and the empty selection of
\* a selectbox created with index=None
None == [none |-> TRUE]
NoSelection == "<None>"

(***************************************************************************)
(* Bounds of the model.                                                    *)
(***************************************************************************)
MaxClock == 3700
MaxVersion == 1
MaxWait == 3

(***************************************************************************)
(* load_session and its cache (data_loader.py 7-28).                       *)
(***************************************************************************)
TTL == 3600

Years == {2023, 2024}
Circuits == {"Monza"}
SessionTypes == {"Qualifying", "Race"}
Keys == Years \X Circuits \X SessionTypes

\* The clock advances in steps that make ages of 3598, 3600 and 3602 seconds occur.
ClockSteps == {1799, 1801}

\* faulty variant: the ttl is taken for milliseconds
CacheValidMillis(entry, t) == entry.present /\ (t - entry.at) * 1000 < TTL

\* st.cache_data(ttl=3600): an entry is served while its age is below the ttl
CacheValid(entry, t) == entry.present /\ t - entry.at < TTL

\* ff1.get_session(year, circuit, session_type); session.load(): the loaded
\* session is the provider's current revision of that session
FetchSession(key) == [key |-> key, version |-> provVersion]

\* One call of load_session(year, circuit, session_type): a cache hit returns the
\* stored value; otherwise the body runs and either returns (the value is stored)
\* or raises (nothing is stored).
load_session(year, circuit, session_type) ==
    LET key == <<year, circuit, session_type>> IN
    IF CacheValid(cache[key], now)
    THEN /\ lastCall' = [made |-> TRUE, key |-> key, at |-> now, before |-> fetched[key],
                         raised |-> FALSE, fetchedNow |-> FALSE, ret |-> cache[key].value]
         /\ UNCHANGED <<now, provVersion, cache, fetched>>
    ELSE \E ok \in BOOLEAN :
           IF ok
           THEN /\ cache' = [cache EXCEPT ![key] =
                               [present |-> TRUE, at |-> now, value |-> FetchSession(key)]]
                /\ fetched' = [fetched EXCEPT ![key] =
                               [present |-> TRUE, at |-> now, value |-> FetchSession(key)]]
                /\ lastCall' = [made |-> TRUE, key |-> key, at |-> now,
                                before |-> fetched[key], raised |-> FALSE,
                                fetchedNow |-> TRUE, ret |-> FetchSession(key)]
                /\ UNCHANGED <<now, provVersion>>
           ELSE /\ lastCall' = [made |-> TRUE, key |-> key, at |-> now,
                                before |-> fetched[key], raised |-> TRUE,
                                fetchedNow |-> FALSE, ret |-> NoEntry]
                /\ UNCHANGED <<now, provVersion, cache, fetched>>

LoadSessionCall ==
    /\ \E y \in Years, c \in Circuits, s \in SessionTypes : load_session(y, c, s)
    /\ UNCHANGED nonCacheVars

Tick ==
    /\ \E d \in ClockSteps : /\ now + d <= MaxClock
                             /\ now' = now + d
    /\ UNCHANGED <<provVersion, cache, fetched, lastCall, nonCacheVars>>

ProviderUpdate ==
    /\ provVersion < MaxVersion
    /\ provVersion' = provVersion + 1
    /\ UNCHANGED <<now, cache, fetched, lastCall, nonCacheVars>>

CacheInit ==
    /\ now = 0
    /\ provVersion = 0
    /\ cache = [k \in Keys |-> NoEntry]
    /\ fetched = [k \in Keys |-> NoEntry]
    /\ lastCall = NoCall

Endpoints == {"meetings", "sessions"}

\* no catalog request pending
CatalogIdle ==
    /\ endpoint = "none"
    /\ resp = [kind |-> "none"]
    /\ catalogOut = NoCall
    /\ catalogCache = [e \in Endpoints |-> NoEntry]
    /\ request = NoCall

NoWeather == [columns |-> {}, rows |-> 0]

\* what a session carries besides its laps is not looked at
SessionExtrasIdle ==
    /\ telemetry = <<>>
    /\ weather = NoWeather
    /\ driversCache = NoEntry
    /\ driversOut = NoCall

\* no session loaded
LapsIdle ==
    /\ laps = <<>>
    /\ lapOut = NoCall
    /\ SessionExtrasIdle

\* the session state a new browser session starts with (home.py 21-26)
UiInit ==
    /\ session_state = [session_data |-> None, show_quick_laps |-> FALSE,
                        circuit_dropdown |-> NoSelection]
    /\ uiOut = NoCall

\* a loaded session is in the session state
UiLoaded ==
    /\ session_state = [session_data |-> [key |-> <<2024, "Monza", "Race">>, version |-> 0],
                        show_quick_laps |-> FALSE, circuit_dropdown |-> "Monza"]
    /\ uiOut = NoCall

Init == CacheInit /\ CatalogIdle /\ LapsIdle /\ UiInit

Next == LoadSessionCall \/ Tick \/ ProviderUpdate

Spec == Init /\ [][Next]_vars

\* C1: a load_session call made less than 3600 s after the last successful fetch
\* of the same key returns the value of that fetch and performs no new fetch
\* (at most one successful fetch per key per TTL window).
C1_CachedWithinTTL ==
    (lastCall.made /\ lastCall.before.present /\ lastCall.at - lastCall.before.at < TTL)
        => /\ ~lastCall.fetchedNow
           /\ ~lastCall.raised
           /\ lastCall.ret = lastCall.before.value

\* a call 3598 s after the fetch, the provider having moved on meanwhile
C1_Witness ==
    /\ lastCall.made /\ lastCall.before.present
    /\ lastCall.at - lastCall.before.at = 3598
    /\ ~lastCall.fetchedNow
    /\ lastCall.ret.version # provVersion

(***************************************************************************)
(* The catalog queries (data_loader.py 30-117).                            *)
(***************************************************************************)
MaxMeetings == 3
MaxSessions == 3

\* a key the JSON record does not carry; the cell pandas fills with NaN
Absent == "<absent>"

\* strings of the model in ascending code-point order, as Python compares them
StrOrder == <<"ABC", "MEDIUM", "Practice 1", "Qualifying", "Race", "SOFT", "XYZ">>
StrRank(s) == CHOOSE i \in 1..Len(StrOrder) : StrOrder[i] = s
StrLess(a, b) == StrRank(a) < StrRank(b)

SeqsUpTo(S, n) == UNION {[1..k -> S] : k \in 0..n}

MeetingRecords ==
    [circuit_short_name : {"Monza", "Spa", Absent},
     location : {"Town", Absent},
     country_name : {"Country"},
     meeting_name : {"GP 1", "GP 2"}]

SessionRecords == [session_name : {"Practice 1", "Qualifying", "Race", Absent}]

\* what the request can meet: no connection, an error status, a body that is
\* not JSON, or a JSON array of records
Responses(records, n) ==
    {[kind |-> "ConnectionError"],
     [kind |-> "http", status |-> 500, json |-> TRUE, body |-> <<>>],
     [kind |-> "http", status |-> 200, json |-> FALSE, body |-> <<>>]}
    \cup {[kind |-> "http", status |-> 200, json |-> TRUE, body |-> b] :
              b \in SeqsUpTo(records, n)}

\* the result of a try body: a value, or the exception that left it
Returned(v) == [exc |-> "none", value |-> v]
Raised(e) == [exc |-> e]

\* requests.get(url); response.raise_for_status(); response.json().
\* jsonExc is the class response.json() raises on a malformed body:
\* requests.exceptions.JSONDecodeError (a RequestException) or ValueError,
\* depending on the installed requests.
HttpGetJson(r, jsonExc) ==
    IF r.kind = "ConnectionError" THEN Raised("ConnectionError")
    ELSE IF r.status >= 400 /\ r.status < 600 THEN Raised("HTTPError")
    ELSE IF ~r.json THEN Raised(jsonExc)
    ELSE Returned(r.body)

IsRequestException(e) == e \in {"ConnectionError", "HTTPError", "JSONDecodeError"}
IsException(e) == e \in {"ConnectionError", "HTTPError", "JSONDecodeError",
                         "ValueError", "KeyError", "TypeError", "IndexError",
                         "AttributeError"}

MeetingFields == <<"circuit_short_name", "location", "country_name", "meeting_name">>
Range(f) == {f[i] : i \in DOMAIN f}

\* pd.DataFrame(meetings_data): a column for every key some record carries
FrameColumns(data) == {c \in Range(MeetingFields) : \E i \in DOMAIN data : data[i][c] # Absent}

\* faulty variant: drop_duplicates(keep='last')
DropDuplicatesKeepLast(rows) ==
    LET keep == {i \in DOMAIN rows : \A j \in DOMAIN rows : j > i => rows[j].name # rows[i].name}
        F[i \in 0..Len(rows)] ==
            IF i = 0 THEN <<>>
            ELSE IF i \in keep THEN Append(F[i - 1], rows[i]) ELSE F[i - 1]
    IN F[Len(rows)]

\* circuits_df.drop_duplicates(subset=['name']).reset_index(drop=True): a row is
\* dropped when an earlier row has the same name (NaN equal to NaN)
DropDuplicates(rows) ==
    LET F[i \in 0..Len(rows)] ==
            IF i = 0 THEN <<>>
            ELSE IF \E j \in 1..(i - 1) : rows[j].name = rows[i].name
                 THEN F[i - 1]
                 ELSE Append(F[i - 1], rows[i])
    IN F[Len(rows)]

\* circuits_df[[...]].copy() and rename(columns={'circuit_short_name': 'name'})
SelectAndRename(data) ==
    [i \in DOMAIN data |->
        [name |-> data[i].circuit_short_name, location |-> data[i].location,
         country_name |-> data[i].country_name, meeting_name |-> data[i].meeting_name]]

EmptyCircuits ==
    [columns |-> <<"name", "circuit_short_name", "location", "country_name">>, rows |-> <<>>]

\* the try body of get_circuits_for_year (lines 52-71)
CircuitsBody(r, jsonExc) ==
    LET got == HttpGetJson(r, jsonExc) IN
    IF got.exc # "none" THEN got
    ELSE IF got.value = <<>> THEN Returned(EmptyCircuits)
    ELSE IF ~(Range(MeetingFields) \subseteq FrameColumns(got.value)) THEN Raised("KeyError")
    ELSE Returned([columns |-> <<"name", "location", "country_name", "meeting_name">>,
                   rows |-> DropDuplicates(SelectAndRename(got.value))])

\* the except clauses of get_circuits_for_year (lines 73-78)
CircuitsHandlers(body) ==
    IF body.exc = "none"
    THEN [made |-> TRUE, raised |-> FALSE, error |-> "none", value |-> body.value]
    ELSE IF IsRequestException(body.exc)
    THEN [made |-> TRUE, raised |-> FALSE, error |-> "Error fetching circuits data",
          value |-> EmptyCircuits]
    ELSE IF IsException(body.exc)
    THEN [made |-> TRUE, raised |-> FALSE, error |-> "Unexpected error",
          value |-> EmptyCircuits]
    ELSE [made |-> TRUE, raised |-> TRUE, error |-> "none", value |-> body.exc]

get_circuits_for_year(r, jsonExc) == CircuitsHandlers(CircuitsBody(r, jsonExc))

\* list(set(...)): the distinct values, in an order the caller cannot rely on
RECURSIVE SetToList(_)
SetToList(S) ==
    IF S = {} THEN <<>>
    ELSE LET x == CHOOSE y \in S : TRUE IN <<x>> \o SetToList(S \ {x})

\* faulty variant: the names are not passed through set()
UniqueKeepAll(names) == names

\* list(set([session['session_name'] for session in sessions_data]))
Unique(names) == SetToList(Range(names))

\* sorted(xs) on strings: insertion into an ascending list, equal elements kept
RECURSIVE Insert(_, _)
Insert(x, xs) ==
    IF xs = <<>> THEN <<x>>
    ELSE IF StrLess(x, Head(xs)) THEN <<x>> \o xs
    ELSE <<Head(xs)>> \o Insert(x, Tail(xs))

RECURSIVE Sorted(_)
Sorted(xs) == IF xs = <<>> THEN <<>> ELSE Insert(Head(xs), Sorted(Tail(xs)))

\* the try body of get_sessions_for_circuit_year (lines 99-110)
SessionsBody(r, jsonExc) ==
    LET got == HttpGetJson(r, jsonExc) IN
    IF got.exc # "none" THEN got
    ELSE IF got.value = <<>> THEN Returned(<<>>)
    ELSE IF \E i \in DOMAIN got.value : got.value[i].session_name = Absent
         THEN Raised("KeyError")
    ELSE Returned(Sorted(Unique([i \in DOMAIN got.value |-> got.value[i].session_name])))

\* the except clauses of get_sessions_for_circuit_year (lines 112-117)
SessionsHandlers(body) ==
    IF body.exc = "none"
    THEN [made |-> TRUE, raised |-> FALSE, error |-> "none", value |-> body.value]
    ELSE IF IsRequestException(body.exc)
    THEN [made |-> TRUE, raised |-> FALSE, error |-> "Error fetching sessions data",
          value |-> <<>>]
    ELSE IF IsException(body.exc)
    THEN [made |-> TRUE, raised |-> FALSE, error |-> "Unexpected error", value |-> <<>>]
    ELSE [made |-> TRUE, raised |-> TRUE, error |-> "none", value |-> body.exc]

get_sessions_for_circuit_year(r, jsonExc) == SessionsHandlers(SessionsBody(r, jsonExc))

JsonErrorClasses == {"JSONDecodeError", "ValueError"}

\* requests.get(url) is called with no timeout argument: requests then waits for
\* the remote without limit
NoTimeout == -1

\* the request of lines 53 and 100, as sent
SentRequest == [made |-> TRUE, timeout |-> NoTimeout, waited |-> 0]

\* A catalog query as decorated with st.cache_data(ttl=3600): a valid entry is
\* returned, and the st.error it recorded is replayed, without running the
\* function; otherwise the function runs (out is its outcome) and whatever it
\* returns is stored, the fallback returned by its except clauses included;
\* nothing is stored when it raises.  The error kept in the entry is history.
CachedCatalogCall(out) ==
    LET entry == catalogCache[endpoint] IN
    IF CacheValid(entry, now)
    THEN /\ catalogOut' = [made |-> TRUE, raised |-> FALSE, error |-> entry.error,
                           value |-> entry.value, requested |-> FALSE,
                           before |-> entry]
         /\ UNCHANGED catalogCache
    ELSE /\ catalogOut' = [made |-> TRUE, raised |-> out.raised, error |-> out.error,
                           value |-> out.value, requested |-> TRUE, before |-> entry]
         /\ catalogCache' =
                IF out.raised THEN catalogCache
                ELSE [catalogCache EXCEPT ![endpoint] =
                         [present |-> TRUE, at |-> now, value |-> out.value,
                          error |-> out.error]]

\* the call is served from the cache, or the remote has answered its request
CanReturn == CacheValid(catalogCache[endpoint], now) \/ resp.kind # "none"

CallGetCircuits ==
    /\ endpoint = "meetings" /\ ~catalogOut.made /\ CanReturn
    /\ \E jsonExc \in JsonErrorClasses :
           CachedCatalogCall(get_circuits_for_year(resp, jsonExc))
    /\ UNCHANGED <<endpoint, resp, request, cacheVars, lapVars, uiVars>>

CallGetSessions ==
    /\ endpoint = "sessions" /\ ~catalogOut.made /\ CanReturn
    /\ \E jsonExc \in JsonErrorClasses :
           CachedCatalogCall(get_sessions_for_circuit_year(resp, jsonExc))
    /\ UNCHANGED <<endpoint, resp, request, cacheVars, lapVars, uiVars>>

CatalogInit ==
    /\ \/ endpoint = "meetings" /\ resp \in Responses(MeetingRecords, MaxMeetings)
       \/ endpoint = "sessions" /\ resp \in Responses(SessionRecords, MaxSessions)
    /\ catalogOut = NoCall
    /\ catalogCache = [e \in Endpoints |-> NoEntry]
    /\ request = SentRequest

InitCatalog == CacheInit /\ CatalogInit /\ LapsIdle /\ UiInit

NextCatalog == CallGetCircuits \/ CallGetSessions

SpecCatalog == InitCatalog /\ [][NextCatalog]_vars

IsJsonList(r) == r.kind = "http" /\ r.status = 200 /\ r.json

\* some record of the body lacks one of the fields the function reads
MissingField(r, fields) ==
    IsJsonList(r) /\ \E i \in DOMAIN r.body : \E f \in fields : r.body[i][f] = Absent

\* C2: get_circuits_for_year never propagates an exception, and on every failure
\* of the meetings request (transport error, non-2xx status, malformed JSON,
\* records missing an expected field) it reports the error and returns an empty
\* table.
C2_FailsOpen ==
    (endpoint = "meetings" /\ catalogOut.made)
        => /\ ~catalogOut.raised
           /\ (~IsJsonList(resp) \/ MissingField(resp, Range(MeetingFields)))
                 => (catalogOut.error # "none" /\ catalogOut.value.rows = <<>>)

FirstIndex(body, n) == CHOOSE i \in DOMAIN body :
    /\ body[i].circuit_short_name = n
    /\ \A j \in 1..(i - 1) : body[j].circuit_short_name # n

\* C3: on a successful response get_circuits_for_year returns exactly one row per
\* distinct circuit_short_name, that row being the first meeting with the name,
\* and the rows are in the order of the source response.
C3_FirstPerName ==
    (endpoint = "meetings" /\ catalogOut.made /\ catalogOut.error = "none"
        /\ ~catalogOut.raised /\ IsJsonList(resp) /\ resp.body # <<>>)
        => LET rows == catalogOut.value.rows
               body == resp.body
           IN /\ \A i, j \in DOMAIN rows : i # j => rows[i].name # rows[j].name
              /\ {rows[i].name : i \in DOMAIN rows}
                     = {body[i].circuit_short_name : i \in DOMAIN body}
              /\ \A i \in DOMAIN rows :
                     rows[i] = SelectAndRename(body)[FirstIndex(body, rows[i].name)]
              /\ \A i, j \in DOMAIN rows :
                     i < j => FirstIndex(body, rows[i].name) < FirstIndex(body, rows[j].name)

\* a response where a circuit occurs twice with different meetings, and another
\* circuit in between
C3_Witness ==
    /\ endpoint = "meetings" /\ catalogOut.made /\ catalogOut.error = "none"
    /\ Len(resp.body) = 3 /\ Len(catalogOut.value.rows) = 2
    /\ resp.body[1].circuit_short_name = resp.body[3].circuit_short_name
    /\ resp.body[1].meeting_name # resp.body[3].meeting_name

MaxLaps == 3

Drivers == {"ABC", "XYZ"}

\* a null LapTime (pd.NaT); lap times are in milliseconds
NaT == -1

\* lap times around the two limits of the filter, and the null time
LapTimeSamples == {NaT, 25000, 30000, 30001, 299999, 300000, 310000}

\* laps of the lap-time scenario of the specification: 98.2 s, 97.9 s, 96.5 s
FastLapSamples == {NaT, 96500, 97900, 98200}

\* session.laps: the rows in timing order, lap numbers counting up per driver
LapTable(rows) ==
    [i \in DOMAIN rows |->
        [Driver |-> rows[i].Driver,
         LapNumber |-> Cardinality({j \in 1..i : rows[j].Driver = rows[i].Driver}),
         LapTime |-> rows[i].LapTime,
         IsPersonalBest |-> rows[i].IsPersonalBest,
         Stint |-> rows[i].Stint,
         Compound |-> rows[i].Compound]]

\* pd.Timedelta(seconds=30), pd.Timedelta(seconds=300)
MinLapTime == 30000
MaxLapTime == 300000

\* faulty variant: the lower limit is inclusive
IsValidLapTimeInclusive(t) == t # NaT /\ t >= MinLapTime /\ t < MaxLapTime

\* the mask of lines 118-120
IsValidLapTime(t) == t # NaT /\ t > MinLapTime /\ t < MaxLapTime

Slowest(table) ==
    CHOOSE t \in {table[i].LapTime : i \in DOMAIN table} :
        \A i \in DOMAIN table : table[i].LapTime <= t

\* faulty variant: the slowest lap of the table is dropped as an outlier as well
AllLapsFilterDropSlowest(table) ==
    IF table = <<>> THEN <<>>
    ELSE SelectSeq(table, LAMBDA l : IsValidLapTime(l.LapTime) /\ l.LapTime < Slowest(table))

\* laps[mask].copy(): the rows the mask selects, in their order
AllLapsFilter(table) == SelectSeq(table, LAMBDA l : IsValidLapTime(l.LapTime))

\* fastf1 Laps.pick_quicklaps(): LapTime < 107 % of the fastest time of the table
MinTime(table) ==
    LET ts == {table[i].LapTime : i \in DOMAIN table} \ {NaT} IN
    IF ts = {} THEN NaT ELSE CHOOSE t \in ts : \A u \in ts : t <= u

\* faulty variant: a missing LapTime takes part in the comparison as a number
PickQuicklapsNaTCompared(table) ==
    SelectSeq(table, LAMBDA l : /\ MinTime(table) # NaT
                                /\ l.LapTime * 100 < MinTime(table) * 107)

\* fastf1 Laps.pick_quicklaps(): LapTime < min(LapTime) * 1.07; min skips the
\* missing values and a comparison with a missing value is False
pick_quicklaps(table) ==
    SelectSeq(table, LAMBDA l : /\ l.LapTime # NaT
                                /\ MinTime(table) # NaT
                                /\ l.LapTime * 100 < MinTime(table) * 107)

\* valid_laps['Driver'].unique(): the drivers in the order of their first lap
RECURSIVE FirstSeen(_)
FirstSeen(table) ==
    IF table = <<>> THEN <<>>
    ELSE LET rest == FirstSeen(SubSeq(table, 1, Len(table) - 1))
             d == table[Len(table)].Driver
         IN IF d \in Range(rest) THEN rest ELSE Append(rest, d)

\* one go.Scatter per driver (lines 150-190): the driver's laps of valid_laps by
\* LapNumber, which is their order in the lap table
DriverTraces(valid_laps) ==
    LET drivers == FirstSeen(valid_laps) IN
    [k \in DOMAIN drivers |->
        LET own == SelectSeq(valid_laps, LAMBDA l : l.Driver = drivers[k]) IN
        [driver |-> drivers[k],
         x |-> [i \in DOMAIN own |-> own[i].LapNumber],
         y |-> [i \in DOMAIN own |-> own[i].LapTime]]]

\* faulty variant: quick_load is ignored, the all-laps filter is always applied
PlotLapTimesIgnoreQuick(table, quick_load) ==
    LET valid_laps == AllLapsFilter(table)
    IN [made |-> TRUE, op |-> "plot_lap_times", quick_load |-> quick_load,
        input |-> table, valid_laps |-> valid_laps, placeholder |-> valid_laps = <<>>,
        raised |-> FALSE,
        traces |-> IF valid_laps = <<>> THEN <<>> ELSE DriverTraces(valid_laps)]

\* plot_lap_times(session, quick_load): the laps that are plotted, whether the
\* placeholder figure 'No valid lap time data available' is returned, and the
\* driver traces of the figure
plot_lap_times(table, quick_load) ==
    LET valid_laps == IF quick_load THEN pick_quicklaps(table) ELSE AllLapsFilter(table)
    IN [made |-> TRUE, op |-> "plot_lap_times", quick_load |-> quick_load,
        input |-> table, valid_laps |-> valid_laps, placeholder |-> valid_laps = <<>>,
        raised |-> FALSE,
        traces |-> IF valid_laps = <<>> THEN <<>> ELSE DriverTraces(valid_laps)]

PlotLapTimes ==
    /\ ~lapOut.made
    /\ \E quick_load \in BOOLEAN : lapOut' = plot_lap_times(laps, quick_load)
    /\ UNCHANGED <<sessionVars, driversVars, cacheVars, catalogVars, uiVars>>

\* the filter applied once more, to the laps it has selected
PlotLapTimesAgain ==
    /\ lapOut.made /\ lapOut.op = "plot_lap_times"
    /\ lapOut' = [plot_lap_times(lapOut.valid_laps, lapOut.quick_load)
                      EXCEPT !.op = "plot_lap_times again"]
    /\ UNCHANGED <<sessionVars, driversVars, cacheVars, catalogVars, uiVars>>

LapRows(times) ==
    [Driver : Drivers, LapTime : times, IsPersonalBest : {TRUE},
     Stint : {1}, Compound : {"SOFT"}]

InitLaps ==
    /\ CacheInit /\ CatalogIdle /\ UiLoaded /\ SessionExtrasIdle
    /\ \E rows \in SeqsUpTo(LapRows(LapTimeSamples), MaxLaps) : laps = LapTable(rows)
    /\ lapOut = NoCall

NextLaps == PlotLapTimes \/ PlotLapTimesAgain

SpecLaps == InitLaps /\ [][NextLaps]_vars

\* C20: every lap of the quick-laps subset, as plot_lap_times(quick_load=True)
\* plots it and as get_drivers_session reads it, has a non-null duration.
C20_QuickLapsTimed ==
    /\ \A i \in DOMAIN pick_quicklaps(laps) : pick_quicklaps(laps)[i].LapTime # NaT
    /\ (lapOut.made /\ lapOut.op = "plot_lap_times" /\ lapOut.quick_load)
           => \A i \in DOMAIN lapOut.valid_laps : lapOut.valid_laps[i].LapTime # NaT

\* quick laps plotted from a session that also has a lap without a duration
C20_Witness ==
    /\ lapOut.made /\ lapOut.op = "plot_lap_times" /\ lapOut.quick_load
    /\ lapOut.valid_laps # <<>> /\ lapOut.input = laps
    /\ \E i \in DOMAIN laps : laps[i].LapTime = NaT

\* the k-th smallest member of a set of indices
Kth(S, k) == CHOOSE i \in S : Cardinality({j \in S : j < i}) = k - 1

\* C5: the all-laps filter keeps a lap iff its LapTime is non-null, above 30 s and
\* below 300 s (30 s, 300 s, 25 s, 310 s and null are excluded), and the laps kept
\* are in their original order.
C5_ValidLapsExact ==
    (lapOut.made /\ lapOut.op = "plot_lap_times" /\ ~lapOut.quick_load)
        => LET keep == {i \in DOMAIN laps : /\ laps[i].LapTime # NaT
                                           /\ laps[i].LapTime > 30000
                                           /\ laps[i].LapTime < 300000}
               valid == lapOut.valid_laps
           IN /\ Len(valid) = Cardinality(keep)
              /\ \A k \in DOMAIN valid : valid[k] = laps[Kth(keep, k)]

\* a table with a lap of exactly 30 s, one of 300 s and one kept lap
C5_Witness ==
    /\ lapOut.made /\ lapOut.op = "plot_lap_times" /\ ~lapOut.quick_load
    /\ Len(laps) = 3 /\ Len(lapOut.valid_laps) = 1
    /\ \E i, j \in DOMAIN laps : laps[i].LapTime = 30000 /\ laps[j].LapTime = 300000

\* C6: the valid-lap filter applied to its own output returns the same sequence.
C6_FilterIdempotent ==
    (lapOut.made /\ lapOut.op = "plot_lap_times again" /\ ~lapOut.quick_load)
        => lapOut.valid_laps = lapOut.input

\* the second pass ran on two kept laps of different times, one lap having been dropped
C6_Witness ==
    /\ lapOut.made /\ lapOut.op = "plot_lap_times again" /\ ~lapOut.quick_load
    /\ Len(laps) = 3 /\ Len(lapOut.input) = 2 /\ Len(lapOut.valid_laps) = 2
    /\ lapOut.input[1].LapTime # lapOut.input[2].LapTime

(***************************************************************************)
(* The default lap of the Driver Analysis tab (home.py 203-215).           *)
(***************************************************************************)
\* session.laps.pick_drivers(driver)
pick_drivers(table, driver) == SelectSeq(table, LAMBDA l : l.Driver = driver)

NoLap == [found |-> FALSE]

\* the first row with the smallest LapTime (Series.idxmin skips NaT)
IdxMin(table) ==
    CHOOSE i \in DOMAIN table :
        /\ table[i].LapTime = MinTime(table)
        /\ \A j \in 1..(i - 1) : table[j].LapTime # MinTime(table)

\* faulty variant: idxmax in place of idxmin
PickFastestIdxMax(table) ==
    LET pb == SelectSeq(table, LAMBDA l : l.IsPersonalBest)
        timed == SelectSeq(pb, LAMBDA l : l.LapTime # NaT)
    IN IF timed = <<>> THEN NoLap
       ELSE [found |-> TRUE,
             lap |-> timed[CHOOSE i \in DOMAIN timed :
                               \A j \in DOMAIN timed : timed[j].LapTime <= timed[i].LapTime]]

\* fastf1 Laps.pick_fastest(only_by_time=False), as home.py calls it: only the
\* laps marked IsPersonalBest are candidates; None when there is none or none of
\* them has a time
pick_fastest(table) ==
    LET pb == SelectSeq(table, LAMBDA l : l.IsPersonalBest) IN
    IF pb = <<>> \/ MinTime(pb) = NaT THEN NoLap
    ELSE [found |-> TRUE, lap |-> pb[IdxMin(pb)]]

\* the body of get_drivers_session(_session): [] for None, otherwise
\* sorted(_session.laps.pick_quicklaps().Driver.unique())
get_drivers_session(_session) ==
    IF _session = None THEN <<>>
    ELSE LET quick == pick_quicklaps(_session.laps) IN
         Sorted(SetToList({quick[i].Driver : i \in DOMAIN quick}))

\* get_drivers_session as decorated with st.cache_data(ttl=3600): a parameter
\* whose name starts with an underscore is left out of the cache key, so the
\* function has a single entry, served to every call whatever session is passed
cached_get_drivers_session(_session) ==
    IF CacheValid(driversCache, now)
    THEN [value |-> driversCache.value, hit |-> TRUE, entry |-> driversCache]
    ELSE [value |-> get_drivers_session(_session), hit |-> FALSE,
          entry |-> [present |-> TRUE, at |-> now,
                     value |-> get_drivers_session(_session)]]

\* session_data as home() reads it from the session state; the laps of a loaded
\* session are the variable laps
CurrentSession ==
    IF session_state.session_data = None THEN None
    ELSE [laps |-> laps, telemetry |-> telemetry, weather_data |-> weather]

\* the lap picker of driver 1: the options of the slider and its default value;
\* None.laps raises AttributeError and None["LapNumber"] raises TypeError
Driver1LapPicker(session_data, driver) ==
    IF session_data = None
    THEN [made |-> TRUE, op |-> "driver1", driver |-> driver, options |-> <<>>,
          fastest |-> NoLap, raised |-> TRUE, exc |-> "AttributeError", value |-> 0]
    ELSE LET own == pick_drivers(session_data.laps, driver)
             fastest == pick_fastest(own)
         IN [made |-> TRUE, op |-> "driver1", driver |-> driver,
             options |-> [i \in DOMAIN own |-> own[i].LapNumber],
             fastest |-> fastest,
             raised |-> ~fastest.found,
             exc |-> IF fastest.found THEN "none" ELSE "TypeError",
             value |-> IF fastest.found THEN fastest.lap.LapNumber ELSE 0]

\* one run of the driver-1 column of the Driver Analysis tab: the selectbox is
\* filled from get_drivers_session; the user leaves it empty or picks a driver
SelectDriver1 ==
    /\ ~lapOut.made
    /\ LET got == cached_get_drivers_session(CurrentSession) IN
       /\ driversCache' = got.entry
       /\ driversOut' = [made |-> TRUE, passed |-> CurrentSession, hit |-> got.hit,
                         value |-> got.value]
       /\ \E d \in Range(got.value) \cup {NoSelection} :
              lapOut' = IF d = NoSelection THEN [made |-> TRUE, op |-> "no driver"]
                        ELSE Driver1LapPicker(CurrentSession, d)
    /\ UNCHANGED <<sessionVars, cacheVars, catalogVars, uiVars>>

FastestRows ==
    [Driver : Drivers, LapTime : FastLapSamples, IsPersonalBest : BOOLEAN,
     Stint : {1}, Compound : {"SOFT"}]

\* the lists get_drivers_session can have returned to an earlier run
DriverLists == {Sorted(SetToList(S)) : S \in SUBSET Drivers}

\* the function has not been called in the last hour, or it has been, by a run
\* of any browser session with the session loaded there or with None
DriversCacheInit ==
    \/ driversCache = NoEntry
    \/ \E v \in DriverLists : driversCache = [present |-> TRUE, at |-> now, value |-> v]

InitFastest ==
    /\ CacheInit /\ CatalogIdle
    /\ telemetry = <<>> /\ weather = NoWeather
    /\ \/ UiLoaded /\ \E rows \in SeqsUpTo(FastestRows, MaxLaps) : laps = LapTable(rows)
       \/ UiInit /\ laps = <<>>
    /\ DriversCacheInit
    /\ driversOut = NoCall
    /\ lapOut = NoCall

NextFastest == SelectDriver1

SpecFastest == InitFastest /\ [][NextFastest]_vars

LapsOf(d) == pick_drivers(laps, d)

\* C13: get_drivers_session(session) returns the distinct drivers of the
\* session's quick laps, each once, in ascending order, no driver without a quick
\* lap, and the empty list when session is None.
C13_DriversOfSession ==
    driversOut.made
        => LET out == driversOut.value IN
           IF driversOut.passed = None THEN out = <<>>
           ELSE LET quick == pick_quicklaps(driversOut.passed.laps) IN
                /\ \A i \in 1..(Len(out) - 1) : StrLess(out[i], out[i + 1])
                /\ Range(out) = {quick[i].Driver : i \in DOMAIN quick}

\* C11: when the selected driver has no lap with a non-null duration, the
\* fastest-lap lookup of the lap picker fails with the typed NoLapsError, not with
\* a generic error or an undefined result.
C11_NoLapsError ==
    (lapOut.made /\ lapOut.op = "driver1"
        /\ \A i \in DOMAIN LapsOf(lapOut.driver) : LapsOf(lapOut.driver)[i].LapTime = NaT)
        => (lapOut.raised /\ lapOut.exc = "NoLapsError")

TimesOf(d) == [i \in DOMAIN LapsOf(d) |-> LapsOf(d)[i].LapTime]
ScenarioTimes == <<98200, 97900, 96500>>

\* C10 as stated: the default lap of a driver is no slower than any lap of that
\* driver with a non-null duration; for laps of 98.2 s, 97.9 s, 96.5 s it is lap 3.
C10_FastestOfAllLaps ==
    (lapOut.made /\ lapOut.op = "driver1" /\ ~lapOut.raised)
        => LET own == LapsOf(lapOut.driver) IN
           /\ \A i \in DOMAIN own :
                  own[i].LapTime # NaT => lapOut.fastest.lap.LapTime <= own[i].LapTime
           /\ TimesOf(lapOut.driver) = ScenarioTimes => lapOut.value = 3

\* C10 (amended): the default lap of a driver is a lap of that driver marked
\* personal best, no slower than any lap of the driver that is marked personal
\* best and has a non-null duration; for laps of 98.2 s, 97.9 s, 96.5 s, all marked
\* personal best, it is lap 3.
C10_FastestOfPersonalBests ==
    (lapOut.made /\ lapOut.op = "driver1" /\ ~lapOut.raised)
        => LET own == LapsOf(lapOut.driver)
               lap == lapOut.fastest.lap
           IN /\ \E i \in DOMAIN own : own[i] = lap
              /\ lap.IsPersonalBest /\ lap.LapTime # NaT
              /\ lapOut.value = lap.LapNumber
              /\ \A i \in DOMAIN own :
                     (own[i].IsPersonalBest /\ own[i].LapTime # NaT)
                         => lap.LapTime <= own[i].LapTime
              /\ (TimesOf(lapOut.driver) = ScenarioTimes
                      /\ \A i \in DOMAIN own : own[i].IsPersonalBest)
                     => lapOut.value = 3

\* the scenario of the specification: three laps, each a personal best, lap 3 chosen
C10_Witness ==
    /\ lapOut.made /\ lapOut.op = "driver1" /\ ~lapOut.raised
    /\ TimesOf(lapOut.driver) = ScenarioTimes
    /\ \A i \in DOMAIN LapsOf(lapOut.driver) : LapsOf(lapOut.driver)[i].IsPersonalBest
    /\ lapOut.value = 3

(***************************************************************************)
(* The tire stints of plot_tire_strategy_chart (viz.py 271-358).           *)
(***************************************************************************)
\* a missing Stint (NaN); stint numbers are positive
NaN == -1

StintValues == {1, 2, NaN}
CompoundValues == {"SOFT", "MEDIUM", Absent}

\* [session.get_driver(d)["Abbreviation"] for d in session.drivers]
DriverList == <<"ABC", "XYZ">>

\* groupby(["Driver", "Stint", "Compound"]) drops the rows with a missing key
\* (dropna=True)
HasGroupKey(l) == l.Stint # NaN /\ l.Compound # Absent

GroupKeys(table) ==
    {<<table[i].Driver, table[i].Stint, table[i].Compound>> :
        i \in {j \in DOMAIN table : HasGroupKey(table[j])}}

\* the order of the group keys (sort=True): by Driver, then Stint, then Compound
KeyLess(a, b) ==
    \/ StrLess(a[1], b[1])
    \/ a[1] = b[1] /\ a[2] < b[2]
    \/ a[1] = b[1] /\ a[2] = b[2] /\ StrLess(a[3], b[3])

RECURSIVE SortKeys(_)
SortKeys(S) ==
    IF S = {} THEN <<>>
    ELSE LET k == CHOOSE x \in S : \A y \in S \ {x} : KeyLess(x, y)
         IN <<k>> \o SortKeys(S \ {k})

\* laps[[...]].groupby([...]).count().reset_index().rename(LapNumber -> StintLength)
GroupByCount(table) ==
    LET keys == SortKeys(GroupKeys(table)) IN
    [k \in DOMAIN keys |->
        [Driver |-> keys[k][1], Stint |-> keys[k][2], Compound |-> keys[k][3],
         StintLength |-> Cardinality({i \in DOMAIN table :
                             /\ HasGroupKey(table[i])
                             /\ <<table[i].Driver, table[i].Stint, table[i].Compound>>
                                    = keys[k]})]]

Max(a, b) == IF a >= b THEN a ELSE b

\* the loop of lines 313-338 over one driver's stints: one bar per row, its base
\* max(previous_stint_end - 1, 0)
RECURSIVE DriverBars(_, _)
DriverBars(rows, previous_stint_end) ==
    IF rows = <<>> THEN <<>>
    ELSE <<[Driver |-> Head(rows).Driver, Stint |-> Head(rows).Stint,
            Compound |-> Head(rows).Compound, StintLength |-> Head(rows).StintLength,
            base |-> Max(previous_stint_end - 1, 0)]>>
         \o DriverBars(Tail(rows), previous_stint_end + Head(rows).StintLength)

\* the loop of lines 309-338 over the drivers
RECURSIVE AllBars(_, _)
AllBars(stints, drivers) ==
    IF drivers = <<>> THEN <<>>
    ELSE DriverBars(SelectSeq(stints, LAMBDA r : r.Driver = Head(drivers)), 0)
         \o AllBars(stints, Tail(drivers))

plot_tire_strategy_chart(table, drivers) ==
    [made |-> TRUE, op |-> "plot_tire_strategy_chart",
     stints |-> GroupByCount(table),
     bars |-> AllBars(GroupByCount(table), drivers)]

PlotTireStrategy ==
    /\ ~lapOut.made
    /\ lapOut' = plot_tire_strategy_chart(laps, DriverList)
    /\ UNCHANGED <<sessionVars, driversVars, cacheVars, catalogVars, uiVars>>

StintRows ==
    [Driver : Drivers, LapTime : {96500}, IsPersonalBest : {TRUE},
     Stint : StintValues, Compound : CompoundValues]

InitStints ==
    /\ CacheInit /\ CatalogIdle /\ UiLoaded /\ SessionExtrasIdle
    /\ \E rows \in SeqsUpTo(StintRows, MaxLaps) : laps = LapTable(rows)
    /\ lapOut = NoCall

NextStints == PlotTireStrategy

SpecStints == InitStints /\ [][NextStints]_vars

RECURSIVE SumLengths(_)
SumLengths(rows) ==
    IF rows = <<>> THEN 0 ELSE Head(rows).StintLength + SumLengths(Tail(rows))

StintsOf(d) == SelectSeq(lapOut.stints, LAMBDA r : r.Driver = d)
BarsOf(d) == SelectSeq(lapOut.bars, LAMBDA r : r.Driver = d)

\* C7: for every driver the StintLength values of the driver's rows of the stints
\* table sum to the number of laps the driver has in session.laps, laps with a
\* missing Compound or Stint included.
C7_LengthsSumToLaps ==
    (lapOut.made /\ lapOut.op = "plot_tire_strategy_chart")
        => \A d \in Drivers : SumLengths(StintsOf(d)) = Len(LapsOf(d))

\* C8: the bar base of a driver's i-th stint is the sum of the lengths of the
\* driver's earlier stints: the first is 0 and the bases are strictly increasing;
\* laps (SOFT, stint 1), (SOFT, stint 1), (MEDIUM, stint 2) give SOFT of length 2
\* at 0 and MEDIUM of length 1 at 2.
C8_BaseIsCumulativeLength ==
    (lapOut.made /\ lapOut.op = "plot_tire_strategy_chart")
        => \A d \in Drivers :
              LET bars == BarsOf(d) IN
              /\ \A i \in DOMAIN bars : bars[i].base = SumLengths(SubSeq(bars, 1, i - 1))
              /\ \A i \in 1..(Len(bars) - 1) : bars[i].base < bars[i + 1].base

\* the stints of a driver as the specification derives them: the laps scanned in
\* lap-number order, a new stint whenever (stint number, compound) changes
RECURSIVE ScanStints(_)
ScanStints(own) ==
    IF own = <<>> THEN <<>>
    ELSE LET rest == ScanStints(Tail(own))
             l == Head(own)
         IN IF rest # <<>> /\ Len(own) > 1
               /\ own[2].Stint = l.Stint /\ own[2].Compound = l.Compound
            THEN <<[Stint |-> l.Stint, Compound |-> l.Compound,
                    StintLength |-> rest[1].StintLength + 1]>> \o Tail(rest)
            ELSE <<[Stint |-> l.Stint, Compound |-> l.Compound, StintLength |-> 1]>>
                 \o rest

StintsNonDecreasing(own) ==
    /\ \A i \in DOMAIN own : own[i].Stint # NaN
    /\ \A i \in 1..(Len(own) - 1) : own[i].Stint <= own[i + 1].Stint

\* C9: for every driver whose stint numbers are non-decreasing over lap numbers
\* the stints of the group-by equal the stints of the scan: as many, with the same
\* compounds and lengths, in ascending stint-number order.
C9_GroupByEqualsScan ==
    (lapOut.made /\ lapOut.op = "plot_tire_strategy_chart")
        => \A d \in Drivers :
              StintsNonDecreasing(LapsOf(d))
                  => [i \in DOMAIN StintsOf(d) |->
                         [Stint |-> StintsOf(d)[i].Stint,
                          Compound |-> StintsOf(d)[i].Compound,
                          StintLength |-> StintsOf(d)[i].StintLength]]
                         = ScanStints(LapsOf(d))

(***************************************************************************)
(* The telemetry comparison of driver_comparison_chart (viz.py 361-590).   *)
(***************************************************************************)
\* telemetry of a lap as the provider returns it: one record per sample
TelemetryShort ==
    <<[Distance |-> 10, Speed |-> 80, Throttle |-> 0, Brake |-> TRUE, nGear |-> 2]>>
TelemetryBraking ==
    <<[Distance |-> 0, Speed |-> 310, Throttle |-> 100, Brake |-> FALSE, nGear |-> 7],
      [Distance |-> 60, Speed |-> 120, Throttle |-> 0, Brake |-> TRUE, nGear |-> 3]>>
TelemetryCorner ==
    <<[Distance |-> 0, Speed |-> 290, Throttle |-> 100, Brake |-> FALSE, nGear |-> 7],
      [Distance |-> 45, Speed |-> 150, Throttle |-> 0, Brake |-> TRUE, nGear |-> 4],
      [Distance |-> 95, Speed |-> 180, Throttle |-> 60, Brake |-> FALSE, nGear |-> 4]>>
TelemetrySamples == {TelemetryShort, TelemetryBraking, TelemetryCorner}

\* faulty variant: the lap number is ignored, the first lap of the driver is taken
PickLapsAny(table, lap_number) == table

\* fastf1 Laps.pick_laps(n): the laps with that LapNumber
pick_laps(table, lap_number) == SelectSeq(table, LAMBDA l : l.LapNumber = lap_number)

\* fastf1 Laps.get_telemetry() of a single lap: a new table on every call
get_telemetry(session, lap) ==
    session.telemetry[CHOOSE i \in DOMAIN session.laps :
                          /\ session.laps[i].Driver = lap.Driver
                          /\ session.laps[i].LapNumber = lap.LapNumber]

\* faulty variant: the brake flag is turned into a percentage at once
BrakeToPercent(b) == IF b THEN 100 ELSE 0

\* replace({True: 1, False: 0})
BrakeToInt(b) == IF b THEN 1 ELSE 0

\* tel['Brake'] = tel['Brake'].replace({True: 1, False: 0})
ReplaceBrake(tel) == [i \in DOMAIN tel |-> [tel[i] EXCEPT !.Brake = BrakeToInt(tel[i].Brake)]]

Column(tel, name) == [i \in DOMAIN tel |-> tel[i][name]]

\* faulty variant: the samples are resampled to one point, the first
TelemetryTraceResampled(tel, channel) ==
    [x |-> SubSeq(Column(tel, "Distance"), 1, 1), y |-> SubSeq(Column(tel, channel), 1, 1)]

\* go.Scatter(x=tel['Distance'], y=tel[channel])
TelemetryTrace(tel, channel) ==
    [x |-> Column(tel, "Distance"), y |-> Column(tel, channel)]

\* go.Scatter(x=tel['Distance'], y=tel['Brake'] * 100)
BrakeTrace(tel) ==
    [x |-> Column(tel, "Distance"), y |-> [i \in DOMAIN tel |-> tel[i].Brake * 100]]

\* the try body of driver_comparison_chart (lines 389-574); .iloc[0] of an empty
\* selection raises IndexError
ComparisonBody(session, driver1, driver2, driver1_lap, driver2_lap) ==
    LET lap_d1 == pick_laps(pick_drivers(session.laps, driver1), driver1_lap)
        lap_d2 == pick_laps(pick_drivers(session.laps, driver2), driver2_lap)
    IN IF lap_d1 = <<>> \/ lap_d2 = <<>> THEN Raised("IndexError")
       ELSE LET tel1 == ReplaceBrake(get_telemetry(session, lap_d1[1]))
                tel2 == ReplaceBrake(get_telemetry(session, lap_d2[1]))
            IN Returned([kind |-> "comparison", tel1 |-> tel1, tel2 |-> tel2,
                         traces |-> <<TelemetryTrace(tel1, "Speed"),
                                      TelemetryTrace(tel2, "Speed"),
                                      TelemetryTrace(tel1, "Throttle"),
                                      TelemetryTrace(tel2, "Throttle"),
                                      BrakeTrace(tel1), BrakeTrace(tel2),
                                      TelemetryTrace(tel1, "nGear"),
                                      TelemetryTrace(tel2, "nGear")>>])

\* the figure of the except clause (lines 576-590): an annotation, no trace
ErrorFigure == [kind |-> "error", tel1 |-> <<>>, tel2 |-> <<>>, traces |-> <<>>]

\* driver_comparison_chart: the try body and its except Exception clause, which
\* returns the error figure
driver_comparison_chart(session, driver1, driver2, driver1_lap, driver2_lap) ==
    LET body == ComparisonBody(session, driver1, driver2, driver1_lap, driver2_lap) IN
    [made |-> TRUE, op |-> "driver_comparison_chart",
     driver1 |-> driver1, driver2 |-> driver2,
     driver1_lap |-> driver1_lap, driver2_lap |-> driver2_lap,
     exc |-> body.exc,
     raised |-> body.exc # "none" /\ ~IsException(body.exc),
     figure |-> IF body.exc = "none" THEN body.value ELSE ErrorFigure]

CompareDrivers ==
    /\ ~lapOut.made
    /\ \E d1 \in Drivers, d2 \in Drivers, l1 \in 1..MaxLaps, l2 \in 1..MaxLaps :
           lapOut' = driver_comparison_chart(CurrentSession, d1, d2, l1, l2)
    /\ UNCHANGED <<sessionVars, driversVars, cacheVars, catalogVars, uiVars>>

InitCompare ==
    /\ CacheInit /\ CatalogIdle /\ UiLoaded
    /\ \E rows \in SeqsUpTo(LapRows({97900}), MaxLaps) : laps = LapTable(rows)
    /\ telemetry \in [DOMAIN laps -> TelemetrySamples]
    /\ weather = NoWeather
    /\ driversCache = NoEntry /\ driversOut = NoCall
    /\ lapOut = NoCall

NextCompare == CompareDrivers

SpecCompare == InitCompare /\ [][NextCompare]_vars

HasLap(driver, lap_number) ==
    \E i \in DOMAIN laps : laps[i].Driver = driver /\ laps[i].LapNumber = lap_number

\* the telemetry the provider holds for a lap of the session
RawTelemetry(driver, lap_number) ==
    telemetry[CHOOSE i \in DOMAIN laps :
                  laps[i].Driver = driver /\ laps[i].LapNumber = lap_number]

Compared == lapOut.made /\ lapOut.op = "driver_comparison_chart"

LapMissing ==
    \/ ~HasLap(lapOut.driver1, lapOut.driver1_lap)
    \/ ~HasLap(lapOut.driver2, lapOut.driver2_lap)

C18_BrakeNormalized ==
    (Compared /\ lapOut.figure.kind = "comparison")
        => \A side \in {1, 2} :
             LET raw == IF side = 1 THEN RawTelemetry(lapOut.driver1, lapOut.driver1_lap)
                        ELSE RawTelemetry(lapOut.driver2, lapOut.driver2_lap)
                 tel == IF side = 1 THEN lapOut.figure.tel1 ELSE lapOut.figure.tel2
                 plotted == lapOut.figure.traces[4 + side].y
             IN /\ Len(tel) = Len(raw) /\ Len(plotted) = Len(raw)
                /\ \A i \in DOMAIN tel :
                       /\ tel[i].Brake \in {0, 1}
                       /\ tel[i].Brake = 1 <=> raw[i].Brake
                       /\ plotted[i] \in {0, 100}
                       /\ plotted[i] = 100 <=> raw[i].Brake

\* a comparison of two laps whose telemetry has braking and non-braking samples
C18_Witness ==
    /\ Compared /\ lapOut.figure.kind = "comparison"
    /\ lapOut.driver1 # lapOut.driver2
    /\ \E i, j \in DOMAIN lapOut.figure.tel1 :
           lapOut.figure.tel1[i].Brake = 1 /\ lapOut.figure.tel1[j].Brake = 0
    /\ \E i, j \in DOMAIN lapOut.figure.traces[6].y :
           lapOut.figure.traces[6].y[i] = 100 /\ lapOut.figure.traces[6].y[j] = 0

Channels == <<"Speed", "Throttle", "Brake", "nGear">>

\* C19: driver_comparison_chart does not resample: each of the four channels of
\* a driver is plotted with exactly the samples and the Distance values of that
\* driver's own telemetry, as many as the provider delivered.
C19_NoResampling ==
    (Compared /\ lapOut.figure.kind = "comparison")
        => \A side \in {1, 2}, c \in DOMAIN Channels :
             LET raw == IF side = 1 THEN RawTelemetry(lapOut.driver1, lapOut.driver1_lap)
                        ELSE RawTelemetry(lapOut.driver2, lapOut.driver2_lap)
                 trace == lapOut.figure.traces[2 * (c - 1) + side]
             IN /\ Len(trace.x) = Len(raw) /\ Len(trace.y) = Len(raw)
                /\ \A i \in DOMAIN raw :
                       /\ trace.x[i] = raw[i].Distance
                       /\ trace.y[i] = IF Channels[c] = "Brake"
                                        THEN (IF raw[i].Brake THEN 100 ELSE 0)
                                        ELSE raw[i][Channels[c]]

\* a comparison of two laps whose telemetry differs in length and in Distance
C19_Witness ==
    /\ Compared /\ lapOut.figure.kind = "comparison"
    /\ Len(lapOut.figure.traces[1].x) = 2 /\ Len(lapOut.figure.traces[2].x) = 3
    /\ lapOut.figure.traces[1].x # SubSeq(lapOut.figure.traces[2].x, 1, 2)
    /\ Len(lapOut.figure.traces[7].y) = 2 /\ Len(lapOut.figure.traces[8].y) = 3

(***************************************************************************)
(* The Weather Analysis tab (home.py 257-282, viz.py 593-668) and what the *)
(* charts do to the session they are given.                                *)
(***************************************************************************)
\* the columns of a loaded session's weather_data (a part of fastf1's)
WeatherColumns == {"Time", "AirTemp", "Humidity", "WindDirection"}
WeatherRowCounts == {0, 2}

\* weather_analysis_chart(weather_data, yaxis_column): the figure, and the table
\* it was given as the call leaves it: the assignment of line 620 adds the
\* column TimeFormatted to the caller's DataFrame
weather_analysis_chart(weather_data, yaxis_column) ==
    IF yaxis_column # NoSelection
    THEN [figure |-> "line",
          weather_data |-> [weather_data EXCEPT
                                !.columns = weather_data.columns \cup {"TimeFormatted"}]]
    ELSE [figure |-> "placeholder", weather_data |-> weather_data]

\* weather_data.drop(columns=['Time', 'WindDirection']).columns
ColumnsToPlot(weather_data) == weather_data.columns \ {"Time", "WindDirection"}

\* one run of the Weather Analysis tab on the session in the session state
WeatherTab ==
    /\ ~lapOut.made /\ CurrentSession # None
    /\ IF weather.rows = 0
       THEN /\ lapOut' = [made |-> TRUE, op |-> "weather", options |-> {},
                          selected |-> NoSelection, figure |-> "warning"]
            /\ weather' = weather
       ELSE \E option \in ColumnsToPlot(weather) \cup {NoSelection} :
              LET chart == weather_analysis_chart(weather, option) IN
              /\ lapOut' = [made |-> TRUE, op |-> "weather",
                            options |-> ColumnsToPlot(weather),
                            selected |-> option, figure |-> chart.figure]
              /\ weather' = chart.weather_data
    /\ UNCHANGED <<laps, telemetry, driversVars, cacheVars, catalogVars, uiVars>>

\* the script runs again on the same session object (the sidebar selection is
\* incomplete, so load_session is not called)
Rerun ==
    /\ lapOut.made
    /\ lapOut' = NoCall
    /\ UNCHANGED <<sessionVars, driversVars, cacheVars, catalogVars, uiVars>>

\* a session has been loaded into the session state; uiOut keeps it as loaded
InitSession ==
    /\ CacheInit /\ CatalogIdle
    /\ \E rows \in SeqsUpTo(LapRows({97900}), MaxLaps) : laps = LapTable(rows)
    /\ telemetry = [i \in DOMAIN laps |-> TelemetryBraking]
    /\ \E n \in WeatherRowCounts : weather = [columns |-> WeatherColumns, rows |-> n]
    /\ driversCache = NoEntry /\ driversOut = NoCall
    /\ lapOut = NoCall
    /\ session_state = [session_data |-> [key |-> <<2024, "Monza", "Race">>, version |-> 0],
                        show_quick_laps |-> FALSE, circuit_dropdown |-> "Monza"]
    /\ uiOut = [made |-> TRUE, raised |-> FALSE,
                loaded |-> [laps |-> laps, weather_data |-> weather]]

NextSession ==
    PlotLapTimes \/ PlotTireStrategy \/ CompareDrivers \/ WeatherTab \/ Rerun

SpecSession == InitSession /\ [][NextSession]_vars

\* C16: after any sequence of plot_lap_times, plot_tire_strategy_chart,
\* driver_comparison_chart and weather_analysis_chart calls, session.laps and
\* session.weather_data (rows and set of columns) are what they were right after
\* the load, and the weather column selector offers the same options on every run.
C16_SessionUnchanged ==
    /\ laps = uiOut.loaded.laps
    /\ weather = uiOut.loaded.weather_data
    /\ (lapOut.made /\ lapOut.op = "weather" /\ weather.rows # 0)
           => lapOut.options = ColumnsToPlot(uiOut.loaded.weather_data)

(***************************************************************************)
(* The cache of the catalog queries over several runs (data_loader.py 30,  *)
(* 80), and the requests they wait on (lines 53, 100).                     *)
(***************************************************************************)
\* what the remote answers to the request of the pending query
AnswersFor(e) ==
    IF e = "meetings"
    THEN Responses([circuit_short_name : {"Monza", "Spa"}, location : {"Town"},
                    country_name : {"Country"}, meeting_name : {"GP 1"}], 1)
    ELSE Responses([session_name : {"Qualifying", "Race"}], 1)

\* the script runs again with the same selection: the query is made once more,
\* and the remote may meanwhile answer otherwise
NextRun ==
    /\ catalogOut.made
    /\ catalogOut' = NoCall
    /\ resp' \in AnswersFor(endpoint)
    /\ UNCHANGED <<endpoint, catalogCache, request, cacheVars, lapVars, uiVars>>

InitCatalogCache ==
    /\ CacheInit /\ LapsIdle /\ UiInit
    /\ endpoint \in Endpoints
    /\ resp \in AnswersFor(endpoint)
    /\ catalogOut = NoCall
    /\ catalogCache = [e \in Endpoints |-> NoEntry]
    /\ request = SentRequest

NextCatalogCache == CallGetCircuits \/ CallGetSessions \/ NextRun \/ Tick

SpecCatalogCache == InitCatalogCache /\ [][NextCatalogCache]_vars

\* C15: a catalog query that fails with a transport or parse error stores no
\* cache entry, so the next call with the same arguments within the hour issues a
\* new request instead of returning the empty fallback from the cache.
C15_FailureNotCached ==
    catalogOut.made
        => /\ catalogOut.error # "none" => catalogCache[endpoint] = catalogOut.before
           /\ ~catalogOut.requested => catalogOut.error = "none"

\* the query is sent: requests.get(url), lines 53 and 100
SendRequest ==
    /\ ~request.made /\ ~catalogOut.made
    /\ ~CacheValid(catalogCache[endpoint], now)
    /\ request' = SentRequest
    /\ UNCHANGED <<endpoint, resp, catalogOut, catalogCache, cacheVars, lapVars, uiVars>>

\* another second passes without an answer; a request sent with a timeout
\* fails with a Timeout (a RequestException) when the timeout has passed
Wait ==
    /\ request.made /\ resp.kind = "none"
    /\ request.waited < MaxWait
    /\ request' = [request EXCEPT !.waited = @ + 1]
    /\ resp' = IF request.timeout # NoTimeout /\ request.waited + 1 >= request.timeout
               THEN [kind |-> "ConnectionError"]
               ELSE resp
    /\ UNCHANGED <<endpoint, catalogOut, catalogCache, cacheVars, lapVars, uiVars>>

\* the remote answers, or the connection fails; nothing obliges it to
RemoteAnswers ==
    /\ request.made /\ resp.kind = "none"
    /\ resp' \in AnswersFor(endpoint)
    /\ UNCHANGED <<endpoint, request, catalogOut, catalogCache, cacheVars, lapVars, uiVars>>

InitRequest ==
    /\ CacheInit /\ LapsIdle /\ UiInit
    /\ endpoint \in Endpoints
    /\ resp = [kind |-> "none"]
    /\ catalogOut = NoCall
    /\ catalogCache = [e \in Endpoints |-> NoEntry]
    /\ request = NoCall

NextRequest ==
    SendRequest \/ Wait \/ RemoteAnswers \/ CallGetCircuits \/ CallGetSessions

SpecRequest == InitRequest /\ [][NextRequest]_vars

\* C17: every request of a catalog query is bounded by a timeout: a call that
\* is waiting for the remote has a timeout and has not waited beyond it, so a
\* remote that never answers ends the call as a recoverable error.
C17_BoundedByTimeout ==
    (request.made /\ ~catalogOut.made /\ resp.kind = "none")
        => (request.timeout # NoTimeout /\ request.waited <= request.timeout)

(***************************************************************************)
(* One run of the script: setup_sidebar (home.py 36-117), then home() with *)
(* the buttons of the lap chart (home.py 159-171).                         *)
(***************************************************************************)
NoYear == 0
SidebarYears == {2024}
SidebarCircuits == {"Monza", "Spa"}
SidebarKeys == SidebarYears \X SidebarCircuits \X SessionTypes
Buttons == {"none", "quick_laps_btn", "all_laps_btn"}

NothingSelected ==
    [year |-> NoYear, circuit |-> NoSelection, session_type |-> NoSelection]

\* a selectbox exists only when the one above it has a value
WidgetValues ==
    {sel \in [year : SidebarYears \cup {NoYear},
              circuit : SidebarCircuits \cup {NoSelection},
              session_type : SessionTypes \cup {NoSelection}] :
        /\ sel.year = NoYear => sel.circuit = NoSelection
        /\ sel.circuit = NoSelection => sel.session_type = NoSelection}

\* The widget values of a run, given those of the run before: the user has
\* changed one selectbox (or none: a button click or a plain rerun); a
\* selectbox below the changed one keeps its value when its options are the
\* same as before, and is empty again otherwise.
AfterUserAction(prev) ==
    {sel \in WidgetValues :
        \/ sel = prev
        \/ /\ sel.year # prev.year
           /\ sel.circuit \in {prev.circuit, NoSelection}
           /\ sel.session_type \in {prev.session_type, NoSelection}
        \/ /\ sel.year = prev.year /\ sel.circuit # prev.circuit
           /\ sel.session_type \in {prev.session_type, NoSelection}
        \/ /\ sel.year = prev.year /\ sel.circuit = prev.circuit
           /\ sel.session_type # prev.session_type}

\* the buttons of home() (lines 159-171), run only when setup_sidebar returned;
\* they are drawn when a session is in the session state
ButtonsOfHome(state, button) ==
    IF state.session_data = None \/ button = "none" THEN state
    ELSE [state EXCEPT !.show_quick_laps = (button = "quick_laps_btn")]

\* what a catalog lookup of the run gives: a table or list with entries, an
\* empty one, an exception that leaves the function, or no call at all
CatalogResults == {"entries", "empty", "raised", "unasked"}

\* faulty variant: the sessions of the circuit are looked up before the circuits
SidebarCallsSessionsFirst(sel, circuits, sessions) ==
    IF sel.year = NoYear THEN <<>>
    ELSE (IF circuits # "entries" \/ sel.circuit = NoSelection THEN <<>>
          ELSE <<[fn |-> "get_sessions_for_circuit_year",
                  args |-> <<sel.year, sel.circuit>>]>>) \o
         <<[fn |-> "get_circuits_for_year", args |-> <<sel.year>>]>> \o
         (IF circuits # "entries" \/ sel.circuit = NoSelection
             \/ sessions # "entries" \/ sel.session_type = NoSelection THEN <<>>
          ELSE <<[fn |-> "load_session",
                  args |-> <<sel.year, sel.circuit, sel.session_type>>]>>)

\* the calls setup_sidebar makes (lines 84-102), in their order: each lookup is
\* nested in the guards of the one before it
SidebarCalls(sel, circuits, sessions) ==
    IF sel.year = NoYear THEN <<>>
    ELSE <<[fn |-> "get_circuits_for_year", args |-> <<sel.year>>]>> \o
         (IF circuits # "entries" \/ sel.circuit = NoSelection THEN <<>>
          ELSE <<[fn |-> "get_sessions_for_circuit_year",
                  args |-> <<sel.year, sel.circuit>>]>> \o
               (IF sessions # "entries" \/ sel.session_type = NoSelection THEN <<>>
                ELSE <<[fn |-> "load_session",
                        args |-> <<sel.year, sel.circuit, sel.session_type>>]>>))

\* the lap-times figure home() builds (lines 145-152), before the buttons
LapFigure(state) ==
    IF state.session_data = None THEN None
    ELSE plot_lap_times(laps, state.show_quick_laps)

\* the button the user clicked last, over the runs so far
LastClicked(button) == IF button = "none" THEN uiOut.clicked ELSE button

\* One run of the script with the widget values sel: setup_sidebar, then
\* home().  circuits and sessions tell what the catalog lookups give.  Line 91
\* stores the circuit before line 102 calls load_session; an exception of a
\* lookup or of load_session leaves setup_sidebar and ends the run, so home()
\* is not run.  home() builds the lap-times figure, then processes the buttons,
\* then displays the figure.
RunScript ==
    \E sel \in AfterUserAction(uiOut.selection), circuits, sessions \in CatalogResults,
       button \in Buttons :
        /\ (circuits = "unasked") <=> (sel.year = NoYear)
        /\ (sessions = "unasked") <=> (sel.circuit = NoSelection)
        /\ sel.circuit # NoSelection => circuits = "entries"
        /\ sel.session_type # NoSelection => sessions = "entries"
        /\ button # "none" => /\ sel = uiOut.selection
                              /\ session_state.session_data # None
                              /\ ~uiOut.ended
        /\ LET calls == SidebarCalls(sel, circuits, sessions)
               loads == \E i \in DOMAIN calls : calls[i].fn = "load_session"
               catalog_raised == "raised" \in {circuits, sessions}
               stored == IF circuits = "entries"
                         THEN [session_state EXCEPT !.circuit_dropdown = sel.circuit]
                         ELSE session_state
               out(raised, ended, figure) ==
                   [made |-> TRUE, selection |-> sel, before |-> session_state,
                    cacheBefore |-> cache, callBefore |-> lastCall,
                    circuits |-> circuits, sessions |-> sessions, calls |-> calls,
                    button |-> button, clicked |-> LastClicked(button),
                    raised |-> raised, ended |-> ended, figure |-> figure]
           IN IF loads
              THEN LET args == calls[Len(calls)].args
                       loaded == [stored EXCEPT !.session_data = lastCall'.ret]
                   IN /\ load_session(args[1], args[2], args[3])
                      /\ session_state' = IF lastCall'.raised THEN stored
                                          ELSE ButtonsOfHome(loaded, button)
                      /\ uiOut' = out(lastCall'.raised, lastCall'.raised,
                                       IF lastCall'.raised THEN None
                                       ELSE LapFigure(loaded))
              ELSE /\ session_state' = IF catalog_raised THEN stored
                                       ELSE ButtonsOfHome(stored, button)
                   /\ uiOut' = out(FALSE, catalog_raised,
                                    IF catalog_raised THEN None ELSE LapFigure(stored))
                   /\ UNCHANGED cacheVars
        /\ UNCHANGED <<catalogVars, lapVars>>

InitSidebar ==
    /\ now = 0 /\ provVersion = 0
    /\ cache = [k \in SidebarKeys |-> NoEntry]
    /\ fetched = [k \in SidebarKeys |-> NoEntry]
    /\ lastCall = NoCall
    /\ CatalogIdle /\ LapsIdle
    /\ session_state = [session_data |-> None, show_quick_laps |-> FALSE,
                        circuit_dropdown |-> NoSelection]
    /\ uiOut = [made |-> FALSE, selection |-> NothingSelected, ended |-> FALSE,
                clicked |-> "none"]

NextSidebar == RunScript

SpecSidebar == InitSidebar /\ [][NextSidebar]_vars

\* C14: when load_session raises during setup_sidebar, session_data,
\* circuit_dropdown and show_quick_laps of the session state and the session
\* cache have the values they had before that user action.
C14_FailedLoadLeavesState ==
    (uiOut.made /\ uiOut.raised)
        => /\ session_state = uiOut.before
           /\ cache = uiOut.cacheBefore

(***************************************************************************)
(* The columns of the circuits table (data_loader.py 41-46, 58-66, 73-78). *)
(***************************************************************************)
\* the columns the docstring of get_circuits_for_year names
DocumentedColumns == {"name", "location", "country_name", "meeting_name"}

\* C21: every table get_circuits_for_year returns, on the success path, the
\* empty-response path and both error paths, has exactly the documented columns
\* name, location, country_name and meeting_name.
C21_DocumentedColumns ==
    (endpoint = "meetings" /\ catalogOut.made /\ ~catalogOut.raised)
        => Range(catalogOut.value.columns) = DocumentedColumns

(***************************************************************************)
(* The figure of plot_lap_times (viz.py 112-190).                          *)
(***************************************************************************)
\* the laps of a table whose duration is below 107 % of the table's best
QuickOf(table) ==
    SelectSeq(table, LAMBDA l :
        /\ l.LapTime # NaT
        /\ \A j \in DOMAIN table :
               table[j].LapTime # NaT => l.LapTime * 100 < table[j].LapTime * 107)

\* C22: plot_lap_times plots only the quick laps when quick_load is True and only
\* the valid laps (non-null, between 30 s and 300 s) when it is False; when the
\* selected subset is empty it returns the placeholder figure, with no driver
\* trace, and raises nothing.
C22_SubsetOrPlaceholder ==
    (lapOut.made /\ lapOut.op = "plot_lap_times")
        => LET subset == IF lapOut.quick_load THEN QuickOf(lapOut.input)
                         ELSE SelectSeq(lapOut.input, LAMBDA l :
                                  /\ l.LapTime # NaT
                                  /\ l.LapTime > MinLapTime /\ l.LapTime < MaxLapTime)
               traces == lapOut.traces
           IN /\ ~lapOut.raised
              /\ lapOut.valid_laps = subset
              /\ lapOut.placeholder <=> subset = <<>>
              /\ lapOut.placeholder => traces = <<>>
              /\ \A k \in DOMAIN traces :
                     LET own == SelectSeq(subset, LAMBDA l : l.Driver = traces[k].driver)
                     IN /\ own # <<>>
                        /\ traces[k].x = [i \in DOMAIN own |-> own[i].LapNumber]
                        /\ traces[k].y = [i \in DOMAIN own |-> own[i].LapTime]
              /\ {traces[k].driver : k \in DOMAIN traces}
                     = {subset[i].Driver : i \in DOMAIN subset}
              /\ \A j, k \in DOMAIN traces : j # k => traces[j].driver # traces[k].driver

\* the quick-laps view of a session whose laps select nothing: the placeholder
C22_Witness ==
    /\ lapOut.made /\ lapOut.op = "plot_lap_times"
    /\ lapOut.quick_load /\ lapOut.input # <<>> /\ lapOut.placeholder
    /\ lapOut.traces = <<>>

(***************************************************************************)
(* The calls of setup_sidebar and the selection (home.py 84-117).          *)
(***************************************************************************)
\* the calls of the last run to a function
CallsTo(fn) == SelectSeq(uiOut.calls, LAMBDA c : c.fn = fn)

\* C23: in every run of setup_sidebar load_session is called only when a year
\* is selected, the circuit list has entries, a circuit is selected, the session
\* list has entries and a session type is selected; it is called with exactly
\* those three selections, and the lookups come in the order circuits,
\* sessions, load.  A run without these leaves the last load_session call as
\* it was.
C23_LoadOnlyWhenSelected ==
    uiOut.made =>
        LET sel == uiOut.selection
            complete == /\ sel.year # NoYear /\ uiOut.circuits = "entries"
                        /\ sel.circuit # NoSelection /\ uiOut.sessions = "entries"
                        /\ sel.session_type # NoSelection
        IN /\ (CallsTo("load_session") # <<>>) <=> complete
           /\ complete =>
                  /\ uiOut.calls =
                         <<[fn |-> "get_circuits_for_year", args |-> <<sel.year>>],
                           [fn |-> "get_sessions_for_circuit_year",
                            args |-> <<sel.year, sel.circuit>>],
                           [fn |-> "load_session",
                            args |-> <<sel.year, sel.circuit, sel.session_type>>]>>
                  /\ lastCall.made
                  /\ lastCall.key = <<sel.year, sel.circuit, sel.session_type>>
           /\ ~complete => lastCall = uiOut.callBefore
           /\ \A i, j \in DOMAIN uiOut.calls :
                  (/\ uiOut.calls[i].fn = "get_circuits_for_year"
                   /\ uiOut.calls[j].fn # "get_circuits_for_year") => i < j

\* a run that loads a session other than the one of the run before
C23_Witness ==
    /\ uiOut.made /\ CallsTo("load_session") # <<>>
    /\ uiOut.callBefore.made /\ uiOut.callBefore.key # lastCall.key
    /\ ~uiOut.raised

\* C24: a session in the session state is the session of the year, circuit and
\* session type that are selected now: after a selection was changed or cleared
\* the dashboard does not go on showing the session of the selection before.
C24_SessionOfSelection ==
    (uiOut.made /\ session_state.session_data # None)
        => session_state.session_data.key =
               <<uiOut.selection.year, uiOut.selection.circuit,
                 uiOut.selection.session_type>>

(***************************************************************************)
(* The lap-times figure and its buttons (home.py 23-24, 145-181).          *)
(***************************************************************************)
\* C25: the lap-times figure displayed at the end of a run is the view of the
\* button clicked last: the quick laps after 'Quick Laps', all laps after
\* 'All Laps'.
C25_FigureOfLastClick ==
    (uiOut.made /\ uiOut.figure # None /\ uiOut.clicked # "none")
        => uiOut.figure.quick_load = (uiOut.clicked = "quick_laps_btn")

\* C28: before any button was clicked the lap-times figure is the quick-laps
\* view.
C28_DefaultsToQuickLaps ==
    (uiOut.made /\ uiOut.figure # None /\ uiOut.clicked = "none")
        => uiOut.figure.quick_load

(***************************************************************************)
(* The Driver Analysis tab as a whole (home.py 196-254).                   *)
(***************************************************************************)
\* a lap variable no statement of the run has assigned
Unassigned == 0

\* the lap picker of driver 2 (lines 224-229): its options are the laps of
\* pick_drivers(driver1_dropdown), its default the fastest lap of driver 2.
\* The arguments are evaluated in their order: None.laps raises AttributeError,
\* pick_drivers(None) iterates None and raises TypeError, None["LapNumber"]
\* raises TypeError, and st.select_slider raises ValueError for a value that is
\* not one of its options.
Driver2LapPicker(session_data, driver1, driver2) ==
    LET failed(exc) ==
            [made |-> TRUE, op |-> "driver2", driver |-> driver2, options |-> <<>>,
             fastest |-> NoLap, raised |-> TRUE, exc |-> exc, value |-> Unassigned]
    IN IF session_data = None THEN failed("AttributeError")
       ELSE IF driver1 = NoSelection THEN failed("TypeError")
       ELSE LET shown == pick_drivers(session_data.laps, driver1)
                options == [i \in DOMAIN shown |-> shown[i].LapNumber]
                fastest == pick_fastest(pick_drivers(session_data.laps, driver2))
            IN IF ~fastest.found THEN failed("TypeError")
               ELSE IF fastest.lap.LapNumber \notin Range(options)
                    THEN failed("ValueError")
               ELSE [made |-> TRUE, op |-> "driver2", driver |-> driver2,
                     options |-> options, fastest |-> fastest, raised |-> FALSE,
                     exc |-> "none", value |-> fastest.lap.LapNumber]

\* a picker whose selectbox is empty: its slider is not drawn
NoPicker ==
    [made |-> FALSE, options |-> <<>>, raised |-> FALSE, exc |-> "none",
     value |-> Unassigned]

\* the positions the user can give a slider: one of its options
SliderValues(picker) ==
    IF picker.made /\ ~picker.raised THEN Range(picker.options) ELSE {Unassigned}

\* the tab with the drivers list of the two selectboxes, the drivers picked and
\* the positions of the sliders: the pickers, the guard of line 232, the chart or
\* the message of line 254.  An exception of a picker ends the run.
DriverAnalysis(session_data, drivers, driver1, driver2, lap1, lap2) ==
    LET picker1 == IF driver1 = NoSelection THEN NoPicker
                   ELSE Driver1LapPicker(session_data, driver1)
        picker2 == IF driver2 = NoSelection \/ picker1.raised THEN NoPicker
                   ELSE Driver2LapPicker(session_data, driver1, driver2)
        raised == picker1.raised \/ picker2.raised
        lap_driver1 == IF picker1.made /\ ~picker1.raised THEN lap1 ELSE Unassigned
        lap_driver2 == IF picker2.made /\ ~picker2.raised THEN lap2 ELSE Unassigned
        compare == /\ ~raised
                   /\ driver1 # NoSelection /\ driver2 # NoSelection
                   /\ driver1 # driver2
    IN [made |-> TRUE, op |-> "driver_tab", session_data |-> session_data,
        drivers |-> drivers, driver1 |-> driver1, driver2 |-> driver2,
        picker1 |-> picker1, picker2 |-> picker2,
        lap_driver1 |-> lap_driver1, lap_driver2 |-> lap_driver2,
        raised |-> raised,
        exc |-> IF picker1.raised THEN picker1.exc ELSE picker2.exc,
        dereferenced |-> driver1 # NoSelection \/ driver2 # NoSelection,
        message |-> ~raised /\ ~compare,
        chart |-> IF compare
                  THEN driver_comparison_chart(session_data, driver1, driver2,
                                               lap_driver1, lap_driver2)
                  ELSE None]

\* one run of the tab: both selectboxes are filled from get_drivers_session (the
\* second call is served from the entry of the first); the user has left each
\* empty or picked a driver, and has set the sliders that are drawn
DriverAnalysisTab ==
    /\ ~lapOut.made
    /\ LET got == cached_get_drivers_session(CurrentSession) IN
       /\ driversCache' = got.entry
       /\ driversOut' = [made |-> TRUE, passed |-> CurrentSession, hit |-> got.hit,
                         value |-> got.value]
       /\ \E d1, d2 \in Range(got.value) \cup {NoSelection} :
              LET drawn == DriverAnalysis(CurrentSession, got.value, d1, d2,
                                          Unassigned, Unassigned)
              IN \E l1 \in SliderValues(drawn.picker1), l2 \in SliderValues(drawn.picker2) :
                     lapOut' = DriverAnalysis(CurrentSession, got.value, d1, d2, l1, l2)
    /\ UNCHANGED <<sessionVars, cacheVars, catalogVars, uiVars>>

\* laps with and without a duration, marked personal best or not
DriverTabRows ==
    {r \in [Driver : Drivers, LapTime : {NaT, 97900}, IsPersonalBest : BOOLEAN,
            Stint : {1}, Compound : {"SOFT"}] : r.LapTime = NaT => ~r.IsPersonalBest}

InitDriverTab ==
    /\ CacheInit /\ CatalogIdle
    /\ weather = NoWeather
    /\ \/ /\ UiLoaded
          /\ \E rows \in SeqsUpTo(DriverTabRows, MaxLaps) : laps = LapTable(rows)
       \/ UiInit /\ laps = <<>>
    /\ telemetry = [i \in DOMAIN laps |-> TelemetryShort]
    /\ DriversCacheInit
    /\ driversOut = NoCall
    /\ lapOut = NoCall

NextDriverTab == DriverAnalysisTab

SpecDriverTab == InitDriverTab /\ [][NextDriverTab]_vars

TabRun == lapOut.made /\ lapOut.op = "driver_tab"

\* C26: the lap selector of driver 2 offers exactly the lap numbers of driver 2
\* and its default, the fastest lap of driver 2, is one of them, so the lap
\* passed to driver_comparison_chart as driver2_lap is a lap of driver 2,
\* whether or not driver 1 is selected.
C26_Driver2OwnLaps ==
    (TabRun /\ lapOut.driver2 # NoSelection /\ lapOut.session_data # None
        /\ ~lapOut.picker1.raised)
        => LET own == LapsOf(lapOut.driver2) IN
           /\ lapOut.picker2.options = [i \in DOMAIN own |-> own[i].LapNumber]
           /\ pick_fastest(own).found
                  => (/\ ~lapOut.picker2.raised
                      /\ lapOut.picker2.value \in Range(lapOut.picker2.options))
           /\ lapOut.chart # None => HasLap(lapOut.driver2, lapOut.chart.driver2_lap)

BothSelected ==
    /\ lapOut.driver1 # NoSelection /\ lapOut.driver2 # NoSelection
    /\ lapOut.driver1 # lapOut.driver2

\* C27: driver_comparison_chart is invoked only when both drivers are selected
\* and differ, with lap_driver1 and lap_driver2 assigned in the same run; in
\* every other case (no driver, one driver, or the same driver twice) the
\* message 'Please select two different drivers to compare.' is shown and no
\* comparison is computed.
C27_ChartOrMessage ==
    TabRun
        => /\ lapOut.chart # None
                  => /\ BothSelected
                     /\ lapOut.lap_driver1 # Unassigned /\ lapOut.lap_driver2 # Unassigned
                     /\ lapOut.chart.driver1_lap = lapOut.lap_driver1
                     /\ lapOut.chart.driver2_lap = lapOut.lap_driver2
           /\ ~BothSelected => (lapOut.message /\ lapOut.chart = None)

\* C29: while the session state holds no session, a run of home() does not
\* dereference it: get_drivers_session gives the empty list, no driver can be
\* selected, and session_data.laps is not evaluated.
C29_NoneNotDereferenced ==
    (TabRun /\ lapOut.session_data = None)
        => /\ lapOut.drivers = <<>>
           /\ ~lapOut.dereferenced
           /\ ~lapOut.raised

(***************************************************************************)
(* format_timedelta_to_hms (viz.py 21-28), applied to the Time column of   *)
(* the weather table (viz.py 620).  A timedelta is a number of             *)
(* milliseconds, NaT the null one; a string is a sequence of characters.   *)
(***************************************************************************)
MaxSeconds == 3700

\* durations of a day and of a hundred hours, around their limits
LongDurations == {86399, 86400, 359999, 360000, 360001}

Timedeltas ==
    {NaT} \cup {s * 1000 + ms : s \in (0..MaxSeconds) \cup LongDurations, ms \in {0, 999}}

DigitChars == <<"0", "1", "2", "3", "4", "5", "6", "7", "8", "9">>

\* str(n) of a non-negative integer
RECURSIVE Decimal(_)
Decimal(n) ==
    IF n < 10 THEN <<DigitChars[n + 1]>>
    ELSE Append(Decimal(n \div 10), DigitChars[(n % 10) + 1])

\* the format specification :02: at least two characters, filled with zeros
ZeroPad2(n) == IF n < 10 THEN <<"0">> \o Decimal(n) ELSE Decimal(n)

\* divmod(a, b)
divmod(a, b) == <<a \div b, a % b>>

\* faulty variant: the duration is rounded to the nearest second
TotalSecondsRounded(td) == (td + 500) \div 1000

\* int(td.total_seconds()) of a non-negative duration: the fraction is cut off
TotalSeconds(td) == td \div 1000

format_timedelta_to_hms(td) ==
    IF td = NaT THEN <<"N", "/", "A">>
    ELSE LET total_seconds == TotalSeconds(td)
             hr == divmod(total_seconds, 3600)
             ms == divmod(hr[2], 60)
         IN ZeroPad2(hr[1]) \o <<":">> \o ZeroPad2(ms[1]) \o <<":">> \o ZeroPad2(ms[2])

\* weather_data['Time'].apply(format_timedelta_to_hms)
ApplyFormat ==
    /\ ~lapOut.made
    /\ lapOut' = [made |-> TRUE, op |-> "format_timedelta_to_hms",
                  input |-> weather.Time,
                  text |-> [i \in DOMAIN weather.Time |->
                               format_timedelta_to_hms(weather.Time[i])]]
    /\ UNCHANGED <<sessionVars, driversVars, cacheVars, catalogVars, uiVars>>

\* a weather table of one row with any of the sample times
InitFormat ==
    /\ CacheInit /\ CatalogIdle /\ UiLoaded
    /\ laps = <<>> /\ telemetry = <<>>
    /\ \E td \in Timedeltas :
           weather = [columns |-> WeatherColumns, rows |-> 1, Time |-> <<td>>]
    /\ driversCache = NoEntry /\ driversOut = NoCall
    /\ lapOut = NoCall

NextFormat == ApplyFormat

SpecFormat == InitFormat /\ [][NextFormat]_vars

\* the number a string of digits writes
RECURSIVE ParseNumber(_)
ParseNumber(chars) ==
    IF chars = <<>> THEN 0
    ELSE ParseNumber(SubSeq(chars, 1, Len(chars) - 1)) * 10
             + (CHOOSE d \in 0..9 : DigitChars[d + 1] = chars[Len(chars)])

IsDigits(chars) == chars # <<>> /\ \A i \in DOMAIN chars : chars[i] \in Range(DigitChars)

\* the text reads HH:MM:SS and the three numbers add up to the whole seconds of
\* the duration td
ReadsAs(text, td) ==
    LET colons == {i \in DOMAIN text : text[i] = ":"} IN
    /\ Cardinality(colons) = 2
    /\ LET c1 == CHOOSE i \in colons : \A j \in colons : i <= j
           c2 == CHOOSE i \in colons : \A j \in colons : j <= i
           HH == SubSeq(text, 1, c1 - 1)
           MM == SubSeq(text, c1 + 1, c2 - 1)
           SS == SubSeq(text, c2 + 1, Len(text))
       IN /\ IsDigits(HH) /\ IsDigits(MM) /\ IsDigits(SS)
          /\ Len(HH) >= 2 /\ Len(MM) = 2 /\ Len(SS) = 2
          /\ ParseNumber(MM) \in 0..59 /\ ParseNumber(SS) \in 0..59
          /\ LET T == ParseNumber(HH) * 3600 + ParseNumber(MM) * 60 + ParseNumber(SS)
             IN T * 1000 <= td /\ td < (T + 1) * 1000

\* C30: for a non-null, non-negative timedelta of T whole seconds (the part
\* below a second cut off) format_timedelta_to_hms returns HH:MM:SS with MM and
\* SS in 0..59 and HH*3600 + MM*60 + SS = T; for a null value it returns 'N/A'.
C30_HmsOfWholeSeconds ==
    (lapOut.made /\ lapOut.op = "format_timedelta_to_hms")
        => \A i \in DOMAIN lapOut.input :
               LET td == lapOut.input[i]
               IN IF td = NaT THEN lapOut.text[i] = <<"N", "/", "A">>
                  ELSE ReadsAs(lapOut.text[i], td)

\* a time of more than an hour with a part below a second: 01:01:01
C30_Witness ==
    /\ lapOut.made /\ lapOut.op = "format_timedelta_to_hms"
    /\ lapOut.input = <<3661999>>
    /\ lapOut.text = <<<<"0", "1", ":", "0", "1", ":", "0", "1">>>>

====
